---- MODULE Spec2Model ----
(***************************************************************************)
(* A model of gym.py: the exercise source (remote catalog lookup behind a  *)
(* 3600-second memo, with the local 10-record catalog as its fallback),    *)
(* the de-duplication step of main(), the deterministic fallback planner   *)
(* and the generative-service plan requester of class WorkoutAI.           *)
(*                                                                         *)
(* Python values are tagged tuples, the tag first:                         *)
(*   <<"str", s>>   <<"int", n>>   <<"lit", "null" | "true" | "false">>    *)
(*   <<"arr", <<v1, ..., vn>> >>                                           *)
(*   <<"obj", << <<k1, v1>>, ..., <<kn, vn>> >> >>  (a dict, in insertion  *)
(*   order, keys being plain strings).                                     *)
(* Text is a TLA+ string; positions are 1-based inside the helpers and     *)
(* 0-based, as in Python, in what find and rfind return.                   *)
(***************************************************************************)
EXTENDS Integers, Sequences, FiniteSets, TLC

VARIABLES
    user_profile,     \* the profile dict handed to WorkoutAI
    exercises,        \* the exercise list handed to WorkoutAI
    api_key,          \* WorkoutAI.api_key ("" when no credential is configured)
    service,          \* what model.generate_content does on this call
    workout_plan,     \* the value the call returned (NoValue before the call)
    pc,               \* "idle" before the call under study, "done" after it
    svc_calls,        \* number of generate_content calls made
    fb_calls,         \* number of _generate_fallback_plan calls made
    fetched,          \* main(): the lists fetched per focus area, in order
    all_exercises,    \* main(): their concatenation
    unique_exercises, \* main(): the de-duplicated list
    now,              \* the clock, in seconds
    cache,            \* st.cache_data store: argument value -> [val, at]
    last,             \* the last fetch_exercises_ninja_api call, for observation
    lookup_log,       \* per argument value, the last remote lookup performed
    n_calls,          \* number of fetch calls made
    n_ticks           \* number of clock steps taken

vars == <<user_profile, exercises, api_key, service, workout_plan, pc, svc_calls,
          fb_calls, fetched, all_exercises, unique_exercises, now, cache, last,
          lookup_log, n_calls, n_ticks>>

aiVars == <<user_profile, exercises, api_key, service, workout_plan, pc, svc_calls, fb_calls>>
dedupVars == <<fetched, all_exercises, unique_exercises>>
fetchVars == <<now, cache, last, lookup_log, n_calls, n_ticks>>

-----------------------------------------------------------------------------
(* Python values *)

PyStr(s) == <<"str", s>>
PyInt(n) == <<"int", n>>
PyList(seq) == <<"arr", seq>>
PyDict(pairs) == <<"obj", pairs>>
PyNone == <<"lit", "null">>
NoValue == <<"none", "">>

IsStr(v) == v[1] = "str"
IsList(v) == v[1] = "arr"
IsDict(v) == v[1] = "obj"

Items(v) == v[2]

\* k in d
HasKey(d, k) == \E i \in 1..Len(d[2]) : d[2][i][1] = k

\* d[k] for a key that is present
Get(d, k) == d[2][CHOOSE i \in 1..Len(d[2]) : d[2][i][1] = k][2]

\* list(d.keys()), in insertion order
Keys(d) == [i \in 1..Len(d[2]) |-> d[2][i][1]]

\* d[k] = v: a present key keeps its place, a new one goes last
DictSet(pairs, k, v) ==
    IF \E i \in 1..Len(pairs) : pairs[i][1] = k
    THEN [i \in 1..Len(pairs) |-> IF pairs[i][1] = k THEN <<k, v>> ELSE pairs[i]]
    ELSE Append(pairs, <<k, v>>)

-----------------------------------------------------------------------------
(* str methods *)

\* s[i-1] as a one-character string, "" past the end
Ch(s, i) == IF i >= 1 /\ i <= Len(s) THEN SubSeq(s, i, i) ELSE ""

\* s[a:b] for 0 <= a, 0 <= b (Python slice: empty when b <= a)
Slice(s, a, b) ==
    LET hi == IF b > Len(s) THEN Len(s) ELSE b
    IN  IF a >= hi THEN "" ELSE SubSeq(s, a + 1, hi)

Whitespace == {" ", "\n", "\t", "\r"}

RECURSIVE LStrip(_)
LStrip(s) == IF Len(s) > 0 /\ Ch(s, 1) \in Whitespace THEN LStrip(Slice(s, 1, Len(s))) ELSE s

RECURSIVE RStrip(_)
RStrip(s) == IF Len(s) > 0 /\ Ch(s, Len(s)) \in Whitespace THEN RStrip(Slice(s, 0, Len(s) - 1)) ELSE s

\* s.strip()
strip(s) == RStrip(LStrip(s))

\* s.startswith(p)
startswith(s, p) == Len(s) >= Len(p) /\ Slice(s, 0, Len(p)) = p

\* whether sub occurs in s at 0-based offset i
OccursAt(s, sub, i) == i >= 0 /\ i + Len(sub) <= Len(s) /\ Slice(s, i, i + Len(sub)) = sub

\* the 0-based offsets at which sub occurs in s
Occurrences(s, sub) == {i \in 0..(Len(s) - Len(sub)) : OccursAt(s, sub, i)}

\* s.find(sub): the lowest 0-based offset, -1 when there is none
find(s, sub) ==
    LET at == Occurrences(s, sub)
    IN  IF at = {} THEN -1 ELSE CHOOSE i \in at : \A j \in at : i <= j

\* s.rfind(sub): the highest 0-based offset, -1 when there is none
rfind(s, sub) ==
    LET at == Occurrences(s, sub)
    IN  IF at = {} THEN -1 ELSE CHOOSE i \in at : \A j \in at : i >= j

\* sub in s
contains(s, sub) == Occurrences(s, sub) # {}

\* s.replace(old, ""), left to right, occurrences not overlapping (old non-empty)
RECURSIVE remove(_, _)
remove(s, old) ==
    LET i == find(s, old)
    IN  IF i = -1 THEN s
        ELSE Slice(s, 0, i) \o remove(Slice(s, i + Len(old), Len(s)), old)

UpperCase == "ABCDEFGHIJKLMNOPQRSTUVWXYZ"
LowerCase == "abcdefghijklmnopqrstuvwxyz"

UpperLetters == {Ch(UpperCase, i) : i \in 1..Len(UpperCase)}
LowerLetters == {Ch(LowerCase, i) : i \in 1..Len(LowerCase)}
ToLower == [c \in UpperLetters |-> Ch(LowerCase, find(UpperCase, c) + 1)]
ToUpper == [c \in LowerLetters |-> Ch(UpperCase, find(LowerCase, c) + 1)]

LowerChar(c) == IF c \in UpperLetters THEN ToLower[c] ELSE c
UpperChar(c) == IF c \in LowerLetters THEN ToUpper[c] ELSE c
IsLetter(c) == c \in UpperLetters \/ c \in LowerLetters

\* s.lower()
RECURSIVE LowerFrom(_, _)
LowerFrom(s, i) == IF i > Len(s) THEN "" ELSE LowerChar(Ch(s, i)) \o LowerFrom(s, i + 1)

lower(s) == LowerFrom(s, 1)

\* s.replace("_", " ")
RECURSIVE UnderscoresFrom(_, _)
UnderscoresFrom(s, i) ==
    IF i > Len(s) THEN ""
    ELSE (IF Ch(s, i) = "_" THEN " " ELSE Ch(s, i)) \o UnderscoresFrom(s, i + 1)

UnderscoresToSpaces(s) == UnderscoresFrom(s, 1)

\* s.title(): a letter after a non-letter is upper-cased, any other letter lower-cased
RECURSIVE TitleFrom(_, _, _)
TitleFrom(s, i, afterLetter) ==
    IF i > Len(s) THEN ""
    ELSE LET c == Ch(s, i)
         IN  (IF afterLetter THEN LowerChar(c) ELSE UpperChar(c))
                 \o TitleFrom(s, i + 1, IsLetter(c))

title(s) == TitleFrom(s, 1, FALSE)

Digits == "0123456789"

DigitSet == {Ch(Digits, i) : i \in 1..Len(Digits)}

\* str(n) for 0 <= n
RECURSIVE IntToStr(_)
IntToStr(n) == IF n < 10 THEN Ch(Digits, n + 1) ELSE IntToStr(n \div 10) \o Ch(Digits, (n % 10) + 1)

-----------------------------------------------------------------------------
(* json.loads, on the JSON subset the model's texts are written in: objects,  *)
(* arrays, strings without escapes, unsigned integers, true, false, null, and  *)
(* whitespace between tokens.  A parser returns [ok, val, pos]: pos is the     *)
(* 1-based position after the value.  As in Python a repeated key keeps its    *)
(* first position and its last value, and a control character inside a string *)
(* is an error.                                                                *)

ParseFail == [ok |-> FALSE, val |-> NoValue, pos |-> 0]
ParseOk(v, p) == [ok |-> TRUE, val |-> v, pos |-> p]

RECURSIVE SkipWs(_, _)
SkipWs(s, i) == IF Ch(s, i) \in Whitespace THEN SkipWs(s, i + 1) ELSE i

\* the position of the closing quote of a string whose first character is at i
RECURSIVE StringEnd(_, _)
StringEnd(s, i) ==
    LET c == Ch(s, i)
    IN  IF c = "" \/ c = "\\" \/ c \in {"\n", "\t", "\r"} THEN 0
        ELSE IF c = "\"" THEN i
        ELSE StringEnd(s, i + 1)

\* the raw text of the string opening at position i (a quote), and where it ends
ParseString(s, i) ==
    LET e == IF Ch(s, i) = "\"" THEN StringEnd(s, i + 1) ELSE 0
    IN  IF e = 0 THEN ParseFail ELSE ParseOk(Slice(s, i, e - 1), e + 1)

IsDigit(c) == c \in DigitSet

RECURSIVE DigitsEnd(_, _)
DigitsEnd(s, i) == IF IsDigit(Ch(s, i)) THEN DigitsEnd(s, i + 1) ELSE i

RECURSIVE StrToInt(_)
StrToInt(d) ==
    IF Len(d) = 0 THEN 0
    ELSE 10 * StrToInt(Slice(d, 0, Len(d) - 1)) + find(Digits, Ch(d, Len(d)))

\* an integer: 0, or a non-zero digit followed by digits
ParseNumber(s, i) ==
    LET e == IF Ch(s, i) = "0" THEN i + 1 ELSE DigitsEnd(s, i)
    IN  ParseOk(PyInt(StrToInt(Slice(s, i - 1, e - 1))), e)

Literals == {"true", "false", "null"}

RECURSIVE ParseValue(_, _)
RECURSIVE ParseMembers(_, _, _)
RECURSIVE ParseElements(_, _, _)

\* the members of an object from position i (a key's opening quote) on
ParseMembers(s, i, acc) ==
    LET k == ParseString(s, i)
        c == SkipWs(s, k.pos)
        v == ParseValue(s, SkipWs(s, c + 1))
        n == SkipWs(s, v.pos)
        got == DictSet(acc, k.val, v.val)
    IN  IF ~k.ok \/ Ch(s, c) # ":" THEN ParseFail
        ELSE IF ~v.ok THEN ParseFail
        ELSE IF Ch(s, n) = "}" THEN ParseOk(PyDict(got), n + 1)
        ELSE IF Ch(s, n) = "," THEN ParseMembers(s, SkipWs(s, n + 1), got)
        ELSE ParseFail

\* the elements of an array from position i (a value's first character) on
ParseElements(s, i, acc) ==
    LET v == ParseValue(s, i)
        n == SkipWs(s, v.pos)
    IN  IF ~v.ok THEN ParseFail
        ELSE IF Ch(s, n) = "]" THEN ParseOk(PyList(Append(acc, v.val)), n + 1)
        ELSE IF Ch(s, n) = "," THEN ParseElements(s, SkipWs(s, n + 1), Append(acc, v.val))
        ELSE ParseFail

\* the value whose first character is at position i
ParseValue(s, i) ==
    LET c == Ch(s, i)
    IN  IF c = "{" THEN
            (IF Ch(s, SkipWs(s, i + 1)) = "}" THEN ParseOk(PyDict(<<>>), SkipWs(s, i + 1) + 1)
             ELSE ParseMembers(s, SkipWs(s, i + 1), <<>>))
        ELSE IF c = "[" THEN
            (IF Ch(s, SkipWs(s, i + 1)) = "]" THEN ParseOk(PyList(<<>>), SkipWs(s, i + 1) + 1)
             ELSE ParseElements(s, SkipWs(s, i + 1), <<>>))
        ELSE IF c = "\"" THEN
            (LET r == ParseString(s, i) IN IF r.ok THEN ParseOk(PyStr(r.val), r.pos) ELSE ParseFail)
        ELSE IF IsDigit(c) THEN ParseNumber(s, i)
        ELSE IF \E w \in Literals : OccursAt(s, w, i - 1)
             THEN (LET w == CHOOSE w \in Literals : OccursAt(s, w, i - 1)
                   IN  ParseOk(<<"lit", w>>, i + Len(w)))
        ELSE ParseFail

\* json.loads(s): [ok |-> FALSE] stands for the JSONDecodeError it raises
json_loads(s) ==
    LET r == ParseValue(s, SkipWs(s, 1))
    IN  IF r.ok /\ SkipWs(s, r.pos) = Len(s) + 1 THEN [ok |-> TRUE, val |-> r.val]
        ELSE [ok |-> FALSE, val |-> NoValue]

-----------------------------------------------------------------------------
(* ExerciseAPI.get_fallback_exercises: the local catalog *)

Exercise(name, type, muscle, equipment, difficulty, instructions) ==
    PyDict(<< <<"name", PyStr(name)>>, <<"type", PyStr(type)>>, <<"muscle", PyStr(muscle)>>,
              <<"equipment", PyStr(equipment)>>, <<"difficulty", PyStr(difficulty)>>,
              <<"instructions", PyStr(instructions)>> >>)

FallbackCatalog == <<
    Exercise("Push-ups", "strength", "chest", "body_only", "beginner",
        "Start in plank position. Lower body until chest nearly touches floor. Push back up to start position."),
    Exercise("Squats", "strength", "quadriceps", "body_only", "beginner",
        "Stand with feet shoulder-width apart. Lower body by bending knees and hips. Return to starting position."),
    Exercise("Plank", "strength", "abdominals", "body_only", "beginner",
        "Hold a push-up position with forearms on ground. Keep body straight from head to heels."),
    Exercise("Lunges", "strength", "quadriceps", "body_only", "intermediate",
        "Step forward with one leg, lowering hips until both knees are bent at 90 degrees. Return to start."),
    Exercise("Burpees", "cardio", "full_body", "body_only", "intermediate",
        "From standing, drop to squat, jump back to plank, do push-up, jump forward to squat, jump up."),
    Exercise("Mountain Climbers", "cardio", "abdominals", "body_only", "intermediate",
        "Start in plank position. Alternate bringing knees to chest in running motion."),
    Exercise("Deadlifts", "strength", "hamstrings", "barbell", "intermediate",
        "Stand with barbell at feet. Bend at hips and knees to lower bar. Stand up by extending hips and knees."),
    Exercise("Pull-ups", "strength", "lats", "pull_up_bar", "intermediate",
        "Hang from pull-up bar with palms facing away. Pull body up until chin clears bar."),
    Exercise("Bicep Curls", "strength", "biceps", "dumbbell", "beginner",
        "Hold dumbbells at sides. Curl weights up by flexing biceps. Lower slowly to start."),
    Exercise("Tricep Dips", "strength", "triceps", "body_only", "beginner",
        "Sit on chair edge, hands gripping seat. Lower body by bending arms, then push back up.") >>

\* truthiness of the muscle_group argument: None and "" are falsy
Truthy(arg) == IsStr(arg) /\ arg[2] # ""

\* the catalog filter of get_fallback_exercises
MuscleMatches(muscle_group, ex) == contains(lower(Get(ex, "muscle")[2]), lower(muscle_group[2]))

get_fallback_exercises(muscle_group) ==
    IF Truthy(muscle_group)
    THEN PyList(SelectSeq(FallbackCatalog, LAMBDA ex : MuscleMatches(muscle_group, ex)))
    ELSE PyList(FallbackCatalog)

-----------------------------------------------------------------------------
(* WorkoutAI._generate_fallback_plan *)

\* d.get(k, default)
GetOr(d, k, default) == IF HasKey(d, k) THEN Get(d, k) ELSE default

SelectCount == 4
FullBodyDays == 3

\* the difficulty filter, and its replacement by the whole list when it is empty
Suitable(exs, experience) ==
    LET kept == SelectSeq(exs, LAMBDA ex : Get(ex, "difficulty")[2] = experience \/ experience = "advanced")
    IN  IF kept = <<>> THEN exs ELSE kept

\* seq[:n] of a list
Take(seq, n) == IF Len(seq) <= n THEN seq ELSE SubSeq(seq, 1, n)

\* a selection that is one exercise short
SelectedShort(suitable) == Take(suitable, SelectCount - 1)

\* suitable_exercises[:4]
Selected(suitable) == Take(suitable, SelectCount)

\* a table whose default row is the intermediate one
SetsRepsRestDefaultIntermediate(experience) ==
    IF experience = "beginner" THEN <<2, "8-12", "90 seconds">>
    ELSE <<3, "10-15", "60 seconds">>

\* sets, reps, rest
SetsRepsRest(experience) ==
    IF experience = "beginner" THEN <<2, "8-12", "90 seconds">>
    ELSE IF experience = "intermediate" THEN <<3, "10-15", "60 seconds">>
    ELSE <<3, "12-20", "45 seconds">>

PlannedExercise(ex, experience) ==
    LET t == SetsRepsRest(experience)
    IN  PyDict(<< <<"name", Get(ex, "name")>>, <<"sets", PyInt(t[1])>>, <<"reps", PyStr(t[2])>>,
                  <<"rest", PyStr(t[3])>>, <<"notes", PyStr("Focus on proper form")>> >>)

\* day keys counted from zero
DayKeyFromZero(day) == "day_" \o IntToStr(day - 1)

\* f"day_{day}"
DayKey(day) == "day_" \o IntToStr(day)

DayFocus(day) == IF day <= FullBodyDays THEN "Full Body" ELSE "Active Recovery"

DaySchedule(day, suitable, experience) ==
    LET selected == Selected(suitable)
    IN  PyDict(<< <<"focus", PyStr(DayFocus(day))>>,
                  <<"exercises", PyList([i \in 1..Len(selected) |-> PlannedExercise(selected[i], experience)])>> >>)

\* for day in range(day, days_per_week + 1): plan["weekly_schedule"][f"day_{day}"] = ...
RECURSIVE WeeklySchedule(_, _, _, _, _)
WeeklySchedule(day, days_per_week, suitable, experience, schedule) ==
    IF day > days_per_week THEN schedule
    ELSE WeeklySchedule(day + 1, days_per_week, suitable, experience,
                        DictSet(schedule, DayKey(day), DaySchedule(day, suitable, experience)))

\* a list of tips with a fourth entry
ProgressionTipsWithFourth == <<
    "Increase weight/reps by 5-10% when you can complete all sets easily",
    "Focus on proper form before increasing intensity",
    "Rest at least one day between intense workouts",
    "Add one set every two weeks" >>

ProgressionTips == <<
    "Increase weight/reps by 5-10% when you can complete all sets easily",
    "Focus on proper form before increasing intensity",
    "Rest at least one day between intense workouts" >>

SuccessTips == <<
    "Stay consistent with your schedule",
    "Track your progress",
    "Listen to your body and rest when needed",
    "Stay hydrated and eat well" >>

StrList(seq) == PyList([i \in 1..Len(seq) |-> PyStr(seq[i])])

generate_fallback_plan(profile, exs) ==
    LET days_per_week == GetOr(profile, "days_per_week", PyInt(3))[2]
        experience == GetOr(profile, "experience", PyStr("beginner"))[2]
        goal == GetOr(profile, "goal", PyStr("general_fitness"))[2]
        suitable == Suitable(Items(exs), experience)
    IN  PyDict(<<
            <<"plan_name", PyStr("Custom " \o title(experience) \o " "
                                 \o title(UnderscoresToSpaces(goal)) \o " Plan")>>,
            <<"overview", PyStr("A " \o IntToStr(days_per_week)
                                \o "-day per week workout plan focused on "
                                \o UnderscoresToSpaces(goal))>>,
            <<"weekly_schedule", PyDict(WeeklySchedule(1, days_per_week, suitable, experience, <<>>))>>,
            <<"progression_tips", StrList(ProgressionTips)>>,
            <<"success_tips", StrList(SuccessTips)>> >>)

-----------------------------------------------------------------------------
(* WorkoutAI.__init__ and WorkoutAI.generate_workout_plan *)

\* the backtick cannot be written in a string here: ~ stands for it
Fence == "~~~"
FenceJson == "~~~json"

\* self.model is set only when a credential is configured
Configured(key) == key # ""

\* response.text.strip(), then the removal of the code-fence markers
CleanFences(raw) ==
    LET t == strip(raw)
    IN  IF startswith(t, FenceJson) THEN strip(remove(remove(t, FenceJson), Fence))
        ELSE IF startswith(t, Fence) THEN strip(remove(t, Fence))
        ELSE t

\* an extraction that ends at the first closing brace
ExtractPlanToFirstBrace(plan_text) ==
    LET start_idx == find(plan_text, "{")
        end_idx == find(plan_text, "}") + 1
    IN  IF start_idx # -1 /\ end_idx # -1
        THEN json_loads(Slice(plan_text, start_idx, end_idx))
        ELSE json_loads(plan_text)

\* the extraction and parsing of the plan; ok = FALSE when json.loads raised
ExtractPlan(plan_text) ==
    LET start_idx == find(plan_text, "{")
        end_idx == rfind(plan_text, "}") + 1
    IN  IF start_idx # -1 /\ end_idx # -1
        THEN json_loads(Slice(plan_text, start_idx, end_idx))
        ELSE json_loads(plan_text)

\* [ret, svc, fb]: the value returned, and how many times the service and the
\* fallback generator were called
generate_workout_plan(key, profile, exs, svc) ==
    IF ~Configured(key)
    THEN [ret |-> generate_fallback_plan(profile, exs), svc |-> 0, fb |-> 1]
    ELSE IF svc.raises
    THEN [ret |-> generate_fallback_plan(profile, exs), svc |-> 1, fb |-> 1]
    ELSE LET plan == ExtractPlan(CleanFences(svc.text))
         IN  IF plan.ok THEN [ret |-> plan.val, svc |-> 1, fb |-> 0]
             ELSE [ret |-> generate_fallback_plan(profile, exs), svc |-> 1, fb |-> 1]

-----------------------------------------------------------------------------
(* Idle values of the parts of the state a specification does not exercise *)

NoService == [raises |-> FALSE, text |-> "", pre |-> "", open |-> "", body |-> "", close |-> "", post |-> ""]

AiIdle ==
    /\ user_profile = PyDict(<<>>)
    /\ exercises = PyList(<<>>)
    /\ api_key = ""
    /\ service = NoService
    /\ workout_plan = NoValue
    /\ pc = "idle"
    /\ svc_calls = 0
    /\ fb_calls = 0

DedupIdle ==
    /\ fetched = <<>>
    /\ all_exercises = <<>>
    /\ unique_exercises = <<>>

NoLookup == [some |-> FALSE, at |-> 0, val |-> NoValue, remote |-> FALSE]

NoResponse == [secrets_raises |-> FALSE, get_raises |-> FALSE, status_code |-> 0, body |-> ""]

NoCall == [key |-> NoValue, param |-> "", at |-> 0, hit |-> FALSE, raised |-> FALSE, val |-> NoValue,
           resp |-> NoResponse, prev |-> NoLookup]

FetchIdle ==
    /\ now = 0
    /\ cache = <<>>
    /\ last = NoCall
    /\ lookup_log = <<>>
    /\ n_calls = 0
    /\ n_ticks = 0

-----------------------------------------------------------------------------
(* The fallback planner on its own: every profile of the sidebar's ranges    *)
(* (and an experience outside them) against every list of up to              *)
(* MaxExercises records of a small pool.                                     *)

MaxExercises == 5
MinDays == 2
MaxDays == 7

Experiences == {"beginner", "intermediate", "advanced", "expert"}
Goals == {"general_fitness", "weight_loss"}

Profile(goal, experience, days) ==
    PyDict(<< <<"goal", PyStr(goal)>>, <<"experience", PyStr(experience)>>,
              <<"days_per_week", PyInt(days)>>, <<"duration", PyInt(45)>>,
              <<"equipment", PyList(<<PyStr("body_only")>>)>>,
              <<"focus_areas", PyList(<<PyStr("full_body")>>)>> >>)

Profiles == {Profile(g, e, d) : g \in Goals, e \in Experiences, d \in MinDays..MaxDays}

ExercisePool == {
    Exercise("Push-ups", "strength", "chest", "body_only", "beginner", "Push."),
    Exercise("Plank", "strength", "abdominals", "body_only", "beginner", "Hold."),
    Exercise("Lunges", "strength", "quadriceps", "body_only", "intermediate", "Step.") }

SeqsUpTo(S, n) == UNION {[1..k -> S] : k \in 0..n}

InitFallback ==
    /\ user_profile \in Profiles
    /\ exercises \in {PyList(l) : l \in SeqsUpTo(ExercisePool, MaxExercises)}
    /\ api_key = ""
    /\ service = NoService
    /\ workout_plan = NoValue
    /\ pc = "idle"
    /\ svc_calls = 0
    /\ fb_calls = 0
    /\ DedupIdle
    /\ FetchIdle

CallFallback ==
    /\ pc = "idle"
    /\ workout_plan' = generate_fallback_plan(user_profile, exercises)
    /\ fb_calls' = fb_calls + 1
    /\ pc' = "done"
    /\ UNCHANGED <<user_profile, exercises, api_key, service, svc_calls>>
    /\ UNCHANGED dedupVars
    /\ UNCHANGED fetchVars

NextFallback == CallFallback

SpecFallback == InitFallback /\ [][NextFallback]_vars

-----------------------------------------------------------------------------
(* Properties of the fallback planner *)

ProfileDays == Get(user_profile, "days_per_week")[2]
ProfileExperience == Get(user_profile, "experience")[2]
Schedule == Get(workout_plan, "weekly_schedule")
DayExercises(d) == Items(Get(Items(Schedule)[d][2], "exercises"))
DayNames(d) == [i \in 1..Len(DayExercises(d)) |-> Get(DayExercises(d)[i], "name")[2]]

AllDayKeys == <<"day_1", "day_2", "day_3", "day_4", "day_5", "day_6", "day_7">>

\* C1: for a profile with days_per_week = N in 2..7 and any exercise list, the
\* empty one included, the fallback planner returns a plan whose weekly_schedule
\* has exactly N entries, keyed day_1, ..., day_N in that insertion order.
C1_ScheduleKeys ==
    pc = "done" =>
        /\ IsDict(workout_plan)
        /\ HasKey(workout_plan, "weekly_schedule")
        /\ IsDict(Schedule)
        /\ Len(Items(Schedule)) = ProfileDays
        /\ Keys(Schedule) = SubSeq(AllDayKeys, 1, ProfileDays)

C1_Witness ==
    /\ pc = "done"
    /\ ProfileDays = MaxDays
    /\ exercises = PyList(<<>>)
    /\ Keys(Schedule) = AllDayKeys

ExpectedTriple ==
    IF ProfileExperience = "beginner" THEN <<PyInt(2), PyStr("8-12"), PyStr("90 seconds")>>
    ELSE IF ProfileExperience = "intermediate" THEN <<PyInt(3), PyStr("10-15"), PyStr("60 seconds")>>
    ELSE <<PyInt(3), PyStr("12-20"), PyStr("45 seconds")>>

\* C2: every planned exercise of every day of a fallback plan carries the
\* (sets, reps, rest) triple of the profile's experience: (2, 8-12, 90 seconds)
\* for beginner, (3, 10-15, 60 seconds) for intermediate, (3, 12-20, 45 seconds)
\* for advanced or any other value, whatever the day and the exercise.
C2_TripleByExperience ==
    pc = "done" =>
        \A d \in 1..Len(Items(Schedule)) : \A i \in 1..Len(DayExercises(d)) :
            LET e == DayExercises(d)[i]
            IN  <<Get(e, "sets"), Get(e, "reps"), Get(e, "rest")>> = ExpectedTriple

C2_Witness ==
    /\ pc = "done"
    /\ ProfileExperience = "expert"
    /\ ProfileDays = MinDays
    /\ Len(DayExercises(MinDays)) = SelectCount
    /\ Get(DayExercises(MinDays)[SelectCount], "sets") = PyInt(3)
    /\ Get(DayExercises(MinDays)[SelectCount], "reps") = PyStr("12-20")

\* the names of the exercises the claim calls suitable, in input order
MatchingNames == SelectSeq(Items(exercises), LAMBDA ex : Get(ex, "difficulty") = PyStr(ProfileExperience))
SuitableByClaim ==
    IF ProfileExperience = "advanced" THEN Items(exercises)
    ELSE IF Len(MatchingNames) = 0 THEN Items(exercises)
    ELSE MatchingNames
ExpectedNames ==
    LET n == IF Len(SuitableByClaim) < 4 THEN Len(SuitableByClaim) ELSE 4
    IN  [i \in 1..n |-> Get(SuitableByClaim[i], "name")[2]]

\* C3: every day of a fallback plan lists the same exercise names: the first
\* min(4, |suitable|) names of suitable in input order, suitable being all the
\* exercises for advanced, else those of the profile's difficulty, or all of
\* them when none has it; the empty list gives empty days.
C3_SameSelectionEveryDay ==
    pc = "done" =>
        \A d \in 1..Len(Items(Schedule)) : DayNames(d) = ExpectedNames

C3_Witness ==
    /\ pc = "done"
    /\ ProfileExperience = "beginner"
    /\ Len(Items(exercises)) = MaxExercises
    /\ Get(Items(exercises)[1], "difficulty") = PyStr("intermediate")
    /\ Len(MatchingNames) = 4
    /\ DayNames(ProfileDays) = <<"Plank", "Push-ups", "Push-ups", "Plank">>

-----------------------------------------------------------------------------
(* main(): the exercises of the focus areas, concatenated and de-duplicated *)

\* all_exercises.extend(exercises), for each fetched list in turn
RECURSIVE Extend(_, _, _)
Extend(lists, i, acc) == IF i > Len(lists) THEN acc ELSE Extend(lists, i + 1, acc \o Items(lists[i]))

\* a loop that tells names apart without regard to case
RECURSIVE RemoveDuplicatesIgnoringCase(_, _, _, _)
RemoveDuplicatesIgnoringCase(all, i, seen_names, unique) ==
    IF i > Len(all) THEN unique
    ELSE IF lower(Get(all[i], "name")[2]) \notin seen_names
    THEN RemoveDuplicatesIgnoringCase(all, i + 1, seen_names \cup {lower(Get(all[i], "name")[2])},
                                      Append(unique, all[i]))
    ELSE RemoveDuplicatesIgnoringCase(all, i + 1, seen_names, unique)

\* for ex in all_exercises: if ex['name'] not in seen_names: append, add
RECURSIVE RemoveDuplicates(_, _, _, _)
RemoveDuplicates(all, i, seen_names, unique) ==
    IF i > Len(all) THEN unique
    ELSE IF Get(all[i], "name") \notin seen_names
    THEN RemoveDuplicates(all, i + 1, seen_names \cup {Get(all[i], "name")}, Append(unique, all[i]))
    ELSE RemoveDuplicates(all, i + 1, seen_names, unique)

MaxLists == 2
MaxListLen == 2

DedupPool == {
    Exercise("Plank", "strength", "abdominals", "body_only", "beginner", "Hold."),
    Exercise("Plank", "strength", "core", "mat", "intermediate", "Hold longer."),
    Exercise("plank", "strength", "abdominals", "body_only", "beginner", "Hold.") }

InitDedup ==
    /\ AiIdle
    /\ fetched \in SeqsUpTo({PyList(l) : l \in SeqsUpTo(DedupPool, MaxListLen)}, MaxLists)
    /\ all_exercises = <<>>
    /\ unique_exercises = <<>>
    /\ FetchIdle

Deduplicate ==
    /\ pc = "idle"
    /\ all_exercises' = Extend(fetched, 1, <<>>)
    /\ unique_exercises' = RemoveDuplicates(all_exercises', 1, {}, <<>>)
    /\ pc' = "done"
    /\ UNCHANGED <<user_profile, exercises, api_key, service, workout_plan, svc_calls, fb_calls, fetched>>
    /\ UNCHANGED fetchVars

NextDedup == Deduplicate

SpecDedup == InitDedup /\ [][NextDedup]_vars

NameOf(ex) == Get(ex, "name")[2]
FirstIndex(seq, name) == CHOOSE i \in 1..Len(seq) : NameOf(seq[i]) = name /\ \A j \in 1..(i - 1) : NameOf(seq[j]) # name
Flattened == IF Len(fetched) = 0 THEN <<>>
             ELSE IF Len(fetched) = 1 THEN Items(fetched[1])
             ELSE IF Len(fetched) = 2 THEN Items(fetched[1]) \o Items(fetched[2])
             ELSE Items(fetched[1]) \o Items(fetched[2]) \o Items(fetched[3])

\* C4: de-duplicating the concatenation, in focus-area order, of the fetched
\* lists keeps every name exactly once, as the first record that carries it
\* (names compared exactly, case included), in first-seen order; doing it to the
\* list concatenated with itself, or to its own result, gives the same list.
C4_FirstOccurrences ==
    pc = "done" =>
        /\ all_exercises = Flattened
        /\ \A i, j \in 1..Len(unique_exercises) :
              i < j => /\ NameOf(unique_exercises[i]) # NameOf(unique_exercises[j])
                       /\ FirstIndex(all_exercises, NameOf(unique_exercises[i]))
                            < FirstIndex(all_exercises, NameOf(unique_exercises[j]))
        /\ \A i \in 1..Len(unique_exercises) :
              unique_exercises[i] = all_exercises[FirstIndex(all_exercises, NameOf(unique_exercises[i]))]
        /\ \A i \in 1..Len(all_exercises) :
              \E j \in 1..Len(unique_exercises) : NameOf(unique_exercises[j]) = NameOf(all_exercises[i])
        /\ RemoveDuplicates(all_exercises \o all_exercises, 1, {}, <<>>) = unique_exercises
        /\ RemoveDuplicates(unique_exercises, 1, {}, <<>>) = unique_exercises

C4_Witness ==
    /\ pc = "done"
    /\ Len(fetched) = MaxLists
    /\ Len(all_exercises) = 4
    /\ NameOf(all_exercises[1]) = "Plank"
    /\ NameOf(all_exercises[2]) = "plank"
    /\ NameOf(all_exercises[3]) = "Plank"
    /\ all_exercises[3] # all_exercises[1]
    /\ unique_exercises = <<all_exercises[1], all_exercises[2]>>

-----------------------------------------------------------------------------
(* The plan requester on its own.  The service either raises or answers with *)
(* a text: some prose, an opening fence, a body, a closing fence, a trailer, *)
(* each possibly empty.  The bodies are a list of JSON documents and         *)
(* near-documents, and every string of up to MaxBodyLen structural           *)
(* characters.                                                               *)

MaxBodyLen == 2

PlanBody ==
    "{\"plan_name\":\"Plan X\",\"overview\":\"Three days\",\"weekly_schedule\":{\"day_1\":"
    \o "{\"focus\":\"chest\",\"exercises\":[{\"name\":\"Push-ups\",\"sets\":3,\"reps\":\"12-15\","
    \o "\"rest\":\"60 seconds\",\"notes\":\"slow\"}]}},\"progression_tips\":[\"more\"],"
    \o "\"success_tips\":[\"sleep\"]}"

ListedBodies == {
    PlanBody,
    "{\"a\":1}",
    "{\"a\": {\"b\": [1, 2]}}",
    "{\"n\":\"~~~x\"}",
    "[{\"a\":1},{\"b\":2}]",
    "[1,2]",
    "7",
    "null",
    "\"a{b\"",
    "\"a}b\"",
    "{\"a\":1",
    "{\"a\" 1}",
    "oops" }

StructuralChars == {"{", "}", "[", "]", "1"}

RECURSIVE StringsOfLen(_)
StringsOfLen(n) == IF n = 0 THEN {""} ELSE {t \o c : t \in StringsOfLen(n - 1), c \in StructuralChars}

ShortBodies == UNION {StringsOfLen(n) : n \in 0..MaxBodyLen}

Bodies == ListedBodies \cup ShortBodies
Prose == {"", "Here is your plan:\n", "Fill in {name}:\n"}
Openers == {"", "~~~\n", "~~~json\n"}
Closers == {"", "\n~~~"}
Trailers == {"", "\nEnjoy!", "\n(see {notes})"}

Answers ==
    {[raises |-> FALSE, text |-> pre \o open \o body \o close \o post,
      pre |-> pre, open |-> open, body |-> body, close |-> close, post |-> post] :
        pre \in Prose, open \in Openers, body \in Bodies, close \in Closers, post \in Trailers}

Raising == [raises |-> TRUE, text |-> "", pre |-> "", open |-> "", body |-> "", close |-> "", post |-> ""]

AiProfiles == {Profile("weight_loss", "beginner", 3), Profile("general_fitness", "advanced", 4)}
AiExercises == {PyList(<<>>), PyList(SubSeq(FallbackCatalog, 1, 5))}

InitAI ==
    /\ user_profile \in AiProfiles
    /\ exercises \in AiExercises
    /\ api_key \in {"", "key"}
    /\ service \in IF api_key = "" THEN {NoService} ELSE Answers \cup {Raising}
    /\ workout_plan = NoValue
    /\ pc = "idle"
    /\ svc_calls = 0
    /\ fb_calls = 0
    /\ DedupIdle
    /\ FetchIdle

GeneratePlan ==
    /\ pc = "idle"
    /\ LET r == generate_workout_plan(api_key, user_profile, exercises, service)
       IN  /\ workout_plan' = r.ret
           /\ svc_calls' = svc_calls + r.svc
           /\ fb_calls' = fb_calls + r.fb
    /\ pc' = "done"
    /\ UNCHANGED <<user_profile, exercises, api_key, service>>
    /\ UNCHANGED dedupVars
    /\ UNCHANGED fetchVars

NextAI == GeneratePlan

SpecAI == InitAI /\ [][NextAI]_vars

-----------------------------------------------------------------------------
(* Properties of the plan requester *)

FallbackForCall == generate_fallback_plan(user_profile, exercises)

\* the response text after strip() and the fence clean-up
PlanText == CleanFences(service.text)

\* the substring from the first opening brace to the last closing brace
HasBraces == find(PlanText, "{") # -1 /\ rfind(PlanText, "}") > find(PlanText, "{")
BraceSubstring == IF HasBraces THEN Slice(PlanText, find(PlanText, "{"), rfind(PlanText, "}") + 1) ELSE ""
FirstAttempt == json_loads(BraceSubstring)
SecondAttempt == json_loads(PlanText)

Answered == pc = "done" /\ Configured(api_key) /\ ~service.raises

\* C5: the requester returns exactly the fallback plan of the same arguments
\* when no credential is configured (the service is then never called), when
\* the service call raises, or when no parsing attempt can parse the response
\* text as JSON; in every other case it returns the parsed service JSON alone.
C5_FallbackOrParsed ==
    pc = "done" =>
        IF ~Configured(api_key)
        THEN workout_plan = FallbackForCall /\ svc_calls = 0
        ELSE IF service.raises \/ (~FirstAttempt.ok /\ ~SecondAttempt.ok)
        THEN workout_plan = FallbackForCall
        ELSE /\ \/ FirstAttempt.ok /\ workout_plan = FirstAttempt.val
                \/ SecondAttempt.ok /\ workout_plan = SecondAttempt.val
             /\ workout_plan # FallbackForCall

\* what does hold of every call: the value is the fallback plan or the value
\* of the one parse the code made, and the fallback generator ran in the first
\* case only
ReturnsFallbackOrOneParse ==
    pc = "done" =>
        \/ workout_plan = FallbackForCall /\ fb_calls = 1
        \/ /\ Answered
           /\ fb_calls = 0
           /\ svc_calls = 1
           /\ \/ FirstAttempt.ok /\ workout_plan = FirstAttempt.val
              \/ find(PlanText, "{") = -1 /\ SecondAttempt.ok /\ workout_plan = SecondAttempt.val

IsStrList(v) == IsList(v) /\ \A i \in 1..Len(Items(v)) : IsStr(Items(v)[i])

WellFormedExercise(e) ==
    /\ IsDict(e)
    /\ \A k \in {"name", "sets", "reps", "rest"} : HasKey(e, k)
    /\ IsStr(Get(e, "name"))

WellFormedDay(d) ==
    /\ IsDict(d)
    /\ HasKey(d, "focus") /\ IsStr(Get(d, "focus"))
    /\ HasKey(d, "exercises") /\ IsList(Get(d, "exercises"))
    /\ \A i \in 1..Len(Items(Get(d, "exercises"))) : WellFormedExercise(Items(Get(d, "exercises"))[i])

\* the WorkoutPlan shape, as main() reads it when it renders a plan
WellFormedPlan(v) ==
    /\ IsDict(v)
    /\ HasKey(v, "plan_name") /\ IsStr(Get(v, "plan_name"))
    /\ HasKey(v, "overview") /\ IsStr(Get(v, "overview"))
    /\ HasKey(v, "weekly_schedule") /\ IsDict(Get(v, "weekly_schedule"))
    /\ \A i \in 1..Len(Items(Get(v, "weekly_schedule"))) : WellFormedDay(Items(Get(v, "weekly_schedule"))[i][2])
    /\ HasKey(v, "progression_tips") /\ IsStrList(Get(v, "progression_tips"))
    /\ HasKey(v, "success_tips") /\ IsStrList(Get(v, "success_tips"))

\* C6: whatever the service does or returns, the requester returns a valid,
\* fully-formed WorkoutPlan; parseable JSON of another shape is replaced by the
\* fallback plan.
C6_AlwaysWellFormed == pc = "done" => WellFormedPlan(workout_plan)

\* every fallback plan has the shape, and so has the plan-shaped answer
FallbackIsWellFormed ==
    /\ pc = "done" /\ fb_calls = 1 => WellFormedPlan(workout_plan)
    /\ Answered /\ service.body = PlanBody /\ FirstAttempt.ok => WellFormedPlan(workout_plan)

BraceFree(t) == ~contains(t, "{") /\ ~contains(t, "}")

\* the response is a JSON object, possibly after prose and inside fence markers
ObjectInProse ==
    /\ json_loads(service.body).ok
    /\ IsDict(json_loads(service.body).val)
    /\ BraceFree(service.pre)
    /\ BraceFree(service.post)

\* C8: when the response text holds a parseable JSON object, possibly preceded
\* by prose and wrapped in fence markers, the requester returns the object
\* parsed from the substring between the first opening and the last closing
\* brace of the fence-stripped text, unchanged, and does not call the fallback
\* generator.  Whenever that substring parses, it is what is returned.
C8_ExtractsEmbeddedObject ==
    Answered =>
        /\ FirstAttempt.ok => workout_plan = FirstAttempt.val /\ fb_calls = 0
        /\ ObjectInProse =>
              /\ FirstAttempt.ok
              /\ IsDict(workout_plan)
              /\ ~contains(service.body, Fence) => workout_plan = json_loads(service.body).val

C8_Witness ==
    /\ Answered
    /\ service.pre = "Here is your plan:\n"
    /\ service.open = "~~~json\n"
    /\ service.close = "\n~~~"
    /\ service.body = PlanBody
    /\ workout_plan = json_loads(PlanBody).val
    /\ fb_calls = 0

\* C10: whenever extracting and parsing the substring between the first opening
\* and the last closing brace fails, a second attempt parses the whole
\* fence-stripped text, and its result is returned if it parses; the fallback
\* generator is used only after both attempts have failed.
C10_SecondAttemptAfterFailure ==
    Answered /\ ~FirstAttempt.ok =>
        IF SecondAttempt.ok
        THEN workout_plan = SecondAttempt.val /\ fb_calls = 0
        ELSE workout_plan = FallbackForCall /\ fb_calls = 1

\* the second attempt is made only when the text has no opening brace
SecondAttemptOnlyWithoutBrace ==
    Answered /\ ~FirstAttempt.ok =>
        IF find(PlanText, "{") = -1 /\ SecondAttempt.ok
        THEN workout_plan = SecondAttempt.val /\ fb_calls = 0
        ELSE workout_plan = FallbackForCall /\ fb_calls = 1

-----------------------------------------------------------------------------
(* ExerciseAPI.fetch_exercises_ninja_api.  What the secrets store and the     *)
(* catalog do on a call is a response record: reading the key may raise,      *)
(* requests.get may raise, or it returns a status code and a body.            *)

TTL == 3600

BodyA ==
    "[{\"name\": \"Bench Press\", \"type\": \"strength\", \"muscle\": \"chest\", "
    \o "\"equipment\": \"barbell\", \"difficulty\": \"intermediate\", \"instructions\": \"Press.\"}]"

BodyB ==
    "[{\"name\": \"Dumbbell Flyes\", \"type\": \"strength\", \"muscle\": \"chest\", "
    \o "\"equipment\": \"dumbbell\", \"difficulty\": \"beginner\", \"instructions\": \"Open.\"}, "
    \o "{\"name\": \"Push-ups\", \"type\": \"strength\", \"muscle\": \"chest\", "
    \o "\"equipment\": \"body_only\", \"difficulty\": \"expert\", \"instructions\": \"Push.\"}]"

Http(status, body) == [secrets_raises |-> FALSE, get_raises |-> FALSE, status_code |-> status, body |-> body]
SecretsMissing == [secrets_raises |-> TRUE, get_raises |-> FALSE, status_code |-> 0, body |-> ""]
ConnectionError == [secrets_raises |-> FALSE, get_raises |-> TRUE, status_code |-> 0, body |-> ""]

Responses == {
    SecretsMissing, ConnectionError,
    Http(200, "[]"), Http(200, BodyA), Http(200, BodyB), Http(200, "{\"error\": \"none\"}"),
    Http(200, "<html>Bad Gateway</html>"), Http(200, ""),
    Http(401, "{\"error\": \"Invalid API Key.\"}"), Http(404, BodyA), Http(500, "") }

\* response.json() of each body the catalog may send, decoded once
Decoded == [b \in {r.body : r \in Responses} |-> json_loads(b)]

\* response.json(): ok = FALSE when the body is not JSON and it raises
response_json(resp) == Decoded[resp.body]


\* params['muscle'], "" when the parameter is not sent
MuscleParam(muscle_group) == IF Truthy(muscle_group) THEN lower(muscle_group[2]) ELSE ""

\* the try block: [raised, val], raised when an exception left it
TryLookup(muscle_group, resp) ==
    IF resp.secrets_raises \/ resp.get_raises THEN [raised |-> TRUE, val |-> NoValue]
    ELSE IF resp.status_code = 200
    THEN LET decoded == response_json(resp)
         IN  IF decoded.ok THEN [raised |-> FALSE, val |-> decoded.val]
             ELSE [raised |-> TRUE, val |-> NoValue]
    ELSE [raised |-> FALSE, val |-> get_fallback_exercises(muscle_group)]

\* a handler that lets the exception through
LookupWithoutHandler(muscle_group, resp) == TryLookup(muscle_group, resp)

\* the function body: the try block and its except clause
Lookup(muscle_group, resp) ==
    LET r == TryLookup(muscle_group, resp)
    IN  IF r.raised THEN [raised |-> FALSE, val |-> get_fallback_exercises(muscle_group)]
        ELSE r

\* whether the lookup returned the body of a 200 response
FromRemote(resp) ==
    /\ ~resp.secrets_raises
    /\ ~resp.get_raises
    /\ resp.status_code = 200
    /\ response_json(resp).ok

\* an entry that is still valid one second longer
FreshInclusive(store, key, t) == key \in DOMAIN store /\ t - store[key].at <= TTL

\* st.cache_data(ttl=3600): an entry is served while it is younger than ttl
Fresh(store, key, t) == key \in DOMAIN store /\ t - store[key].at < TTL

Put(store, key, entry) == [k \in DOMAIN store \cup {key} |-> IF k = key THEN entry ELSE store[k]]

LoggedLookup(key) == IF key \in DOMAIN lookup_log THEN lookup_log[key] ELSE NoLookup

\* a call whose result is kept only when it came from the remote catalog
FetchKeepingRemoteOnly(muscle_group, resp) ==
    /\ IF Fresh(cache, muscle_group, now)
       THEN /\ last' = [key |-> muscle_group, param |-> "", at |-> now, hit |-> TRUE, raised |-> FALSE,
                        val |-> cache[muscle_group].val, resp |-> NoResponse,
                        prev |-> LoggedLookup(muscle_group)]
            /\ UNCHANGED <<cache, lookup_log>>
       ELSE LET r == Lookup(muscle_group, resp)
            IN  /\ last' = [key |-> muscle_group, param |-> MuscleParam(muscle_group), at |-> now,
                            hit |-> FALSE, raised |-> r.raised, val |-> r.val, resp |-> resp,
                            prev |-> LoggedLookup(muscle_group)]
                /\ cache' = IF FromRemote(resp) THEN Put(cache, muscle_group, [val |-> r.val, at |-> now])
                                                ELSE cache
                /\ lookup_log' = Put(lookup_log, muscle_group,
                                     [some |-> TRUE, at |-> now, val |-> r.val, remote |-> FromRemote(resp)])
    /\ n_calls' = n_calls + 1
    /\ UNCHANGED <<now, n_ticks>>
    /\ UNCHANGED aiVars
    /\ UNCHANGED dedupVars

\* one call fetch_exercises_ninja_api(muscle_group), the catalog answering resp
Fetch(muscle_group, resp) ==
    /\ IF Fresh(cache, muscle_group, now)
       THEN /\ last' = [key |-> muscle_group, param |-> "", at |-> now, hit |-> TRUE, raised |-> FALSE,
                        val |-> cache[muscle_group].val, resp |-> NoResponse,
                        prev |-> LoggedLookup(muscle_group)]
            /\ UNCHANGED <<cache, lookup_log>>
       ELSE LET r == Lookup(muscle_group, resp)
            IN  /\ last' = [key |-> muscle_group, param |-> MuscleParam(muscle_group), at |-> now,
                            hit |-> FALSE, raised |-> r.raised, val |-> r.val, resp |-> resp,
                            prev |-> LoggedLookup(muscle_group)]
                /\ cache' = IF r.raised THEN cache ELSE Put(cache, muscle_group, [val |-> r.val, at |-> now])
                /\ lookup_log' = Put(lookup_log, muscle_group,
                                     [some |-> TRUE, at |-> now, val |-> r.val, remote |-> FromRemote(resp)])
    /\ n_calls' = n_calls + 1
    /\ UNCHANGED <<now, n_ticks>>
    /\ UNCHANGED aiVars
    /\ UNCHANGED dedupVars

Tick(d) ==
    /\ now' = now + d
    /\ n_ticks' = n_ticks + 1
    /\ UNCHANGED <<cache, last, lookup_log, n_calls>>
    /\ UNCHANGED aiVars
    /\ UNCHANGED dedupVars

MuscleGroups == {PyNone, PyStr(""), PyStr("chest"), PyStr("Chest"), PyStr("CHEST"), PyStr("ceps"),
                 PyStr("CEPS"), PyStr("abs"), PyStr("abdominals"), PyStr("full_body"), PyStr("s"),
                 PyStr("back")}

InitFetch ==
    /\ AiIdle
    /\ DedupIdle
    /\ FetchIdle

FetchOnce == \E k \in MuscleGroups, r \in Responses : n_calls = 0 /\ Fetch(k, r)

NextFetch == FetchOnce

SpecFetch == InitFetch /\ [][NextFetch]_vars

-----------------------------------------------------------------------------
(* The memo over time: a few argument values, a catalog whose answer changes, *)
(* and a clock that advances by one second or by one second less than the     *)
(* time to live.                                                              *)

MaxCalls == 3
MaxTicks == 3

CacheKeys == {PyStr("chest"), PyStr("Chest")}
CacheResponses == {Http(200, BodyA), Http(200, BodyB), ConnectionError}
ClockSteps == {1, TTL - 1}

FetchAgain == \E k \in CacheKeys, r \in CacheResponses : n_calls < MaxCalls /\ Fetch(k, r)

Advance == \E d \in ClockSteps : n_ticks < MaxTicks /\ Tick(d)

NextCache == FetchAgain \/ Advance

SpecCache == InitFetch /\ [][NextCache]_vars

-----------------------------------------------------------------------------
(* Properties of the exercise source *)

CatalogNames == [i \in 1..Len(FallbackCatalog) |-> NameOf(FallbackCatalog[i])]

\* the catalog records a muscle group selects, by name, written out
ExpectedCatalogNames(muscle_group) ==
    IF muscle_group \in {PyNone, PyStr("")} THEN CatalogNames
    ELSE IF muscle_group \in {PyStr("chest"), PyStr("Chest"), PyStr("CHEST")} THEN <<"Push-ups">>
    ELSE IF muscle_group \in {PyStr("ceps"), PyStr("CEPS")}
         THEN <<"Squats", "Lunges", "Bicep Curls", "Tricep Dips">>
    ELSE IF muscle_group = PyStr("abdominals") THEN <<"Plank", "Mountain Climbers">>
    ELSE IF muscle_group = PyStr("full_body") THEN <<"Burpees">>
    ELSE IF muscle_group = PyStr("s")
         THEN <<"Push-ups", "Squats", "Plank", "Lunges", "Mountain Climbers", "Deadlifts",
                "Pull-ups", "Bicep Curls", "Tricep Dips">>
    ELSE <<>>

LastNames == [i \in 1..Len(Items(last.val)) |-> NameOf(Items(last.val)[i])]

RemoteAnswered(resp) ==
    ~resp.secrets_raises /\ ~resp.get_raises /\ resp.status_code = 200 /\ json_loads(resp.body).ok

\* C7: fetch_exercises_ninja_api never propagates an error: on a network
\* failure, a non-200 response or any exception of the lookup (an undecodable
\* 200 body included) it returns the records of the 10-record local catalog
\* whose muscle contains muscle_group, case ignored, or the whole catalog when
\* muscle_group is None or empty; on a 200 response it returns the decoded body.
C7_NeverRaisesFallsBackToCatalog ==
    n_calls = 1 =>
        /\ ~last.raised
        /\ Len(FallbackCatalog) = 10
        /\ IF RemoteAnswered(last.resp)
           THEN last.val = json_loads(last.resp.body).val
           ELSE /\ IsList(last.val)
                /\ LastNames = ExpectedCatalogNames(last.key)
                /\ \A i \in 1..Len(Items(last.val)) :
                      \E j \in 1..Len(FallbackCatalog) : Items(last.val)[i] = FallbackCatalog[j]

C7_Witness ==
    /\ n_calls = 1
    /\ last.key = PyStr("CEPS")
    /\ last.resp = Http(200, "<html>Bad Gateway</html>")
    /\ ~last.raised
    /\ LastNames = <<"Squats", "Lunges", "Bicep Curls", "Tricep Dips">>

\* C9: remote results are cached per muscle_group argument value for up to 3600
\* seconds: a fetch for k made less than 3600 seconds after a fetch for k that
\* obtained a remote result returns that result without a remote lookup; the
\* entries of other argument values play no part; once 3600 seconds have passed
\* the next fetch for k performs the remote lookup again.
C9_CachedPerArgumentForTTL ==
    n_calls > 0 =>
        /\ (last.prev.some /\ last.prev.remote /\ last.at - last.prev.at < 3600)
              => last.hit /\ last.val = last.prev.val
        /\ (last.prev.some /\ last.at - last.prev.at >= 3600) => ~last.hit
        /\ ~last.prev.some => ~last.hit

C9_Witness ==
    /\ last.hit
    /\ last.key = PyStr("Chest")
    /\ last.prev.remote
    /\ last.at - last.prev.at = 3599
    /\ last.val = json_loads(BodyB).val
    /\ PyStr("chest") \in DOMAIN cache
    /\ cache[PyStr("chest")].val = json_loads(BodyA).val
    /\ cache[PyStr("chest")].at > last.prev.at

-----------------------------------------------------------------------------
(* The tips of the fallback plan *)

PlanProgressionTips == Items(Get(workout_plan, "progression_tips"))
PlanSuccessTips == Items(Get(workout_plan, "success_tips"))

\* C11 as stated: in every fallback plan progression_tips and success_tips
\* have 4 and 4 entries respectively
C11_FourAndFourTips ==
    pc = "done" => Len(PlanProgressionTips) = 4 /\ Len(PlanSuccessTips) = 4

\* C11: in every plan of the fallback planner progression_tips and success_tips
\* are fixed constant lists that do not depend on the profile or the exercises;
\* they have 3 and 4 entries respectively.
C11_FixedTips ==
    pc = "done" =>
        /\ PlanProgressionTips = <<
              PyStr("Increase weight/reps by 5-10% when you can complete all sets easily"),
              PyStr("Focus on proper form before increasing intensity"),
              PyStr("Rest at least one day between intense workouts") >>
        /\ PlanSuccessTips = <<
              PyStr("Stay consistent with your schedule"),
              PyStr("Track your progress"),
              PyStr("Listen to your body and rest when needed"),
              PyStr("Stay hydrated and eat well") >>
        /\ Len(PlanProgressionTips) = 3
        /\ Len(PlanSuccessTips) = 4

C11_Witness ==
    /\ pc = "done"
    /\ ProfileExperience = "intermediate"
    /\ Get(user_profile, "goal") = PyStr("weight_loss")
    /\ Len(Items(exercises)) = MaxExercises
    /\ Len(PlanProgressionTips) = 3
    /\ Len(PlanSuccessTips) = 4

(* The cache of fetch_exercises_ninja_api and the local fallback list *)

\* the previous lookup for the argument of the last call failed and the call
\* comes less than 3600 seconds after it
WithinTTLOfFailedLookup ==
    /\ n_calls > 0
    /\ last.prev.some
    /\ ~last.prev.remote
    /\ last.at - last.prev.at < 3600

\* the remote catalog answered a lookup for another argument after the failed
\* lookup for the argument of the last call
ReachableInTheMeantime ==
    \E k \in DOMAIN lookup_log :
        /\ k # last.key
        /\ lookup_log[k].remote
        /\ lookup_log[k].at > last.prev.at
        /\ lookup_log[k].at <= last.at

\* C12: the cache stores whatever the function returns, the local fallback list
\* included: for less than 3600 seconds after a fetch for argument k whose
\* remote lookup failed, every further fetch for k returns that fallback list
\* without attempting the remote lookup again, whatever the remote catalog
\* would answer by then.
C12_FallbackIsCachedToo ==
    WithinTTLOfFailedLookup =>
        /\ last.hit
        /\ ~last.raised
        /\ last.resp = NoResponse
        /\ last.val = last.prev.val
        /\ last.val = get_fallback_exercises(last.key)
        /\ lookup_log[last.key] = last.prev

C12_Witness ==
    /\ WithinTTLOfFailedLookup
    /\ last.at > last.prev.at
    /\ ReachableInTheMeantime
    /\ last.hit
    /\ LastNames = << "Push-ups" >>

====
